---- MODULE Spec2Model ----
(***************************************************************************)
(* Model of src/demos/shared/demo-lang.js: the DemoLang bilingual system   *)
(* (init, applyLang, attachListeners, updateLinks) and the image fallback  *)
(* window.__demoFallbackImg, together with the browser objects they read   *)
(* and write: window.location, window.history, localStorage, navigator,    *)
(* document.documentElement.lang and the marked elements of the page.      *)
(*                                                                         *)
(* Strings that the code inspects by prefix or suffix (navigator.language, *)
(* translation keys) are sequences of one-character strings; strings that  *)
(* the code only compares or copies are TLA+ strings.  The document is a   *)
(* flat list of marked elements in document order: marked elements are not *)
(* nested in one another and translations inject no marked elements.       *)
(* dict[lang] holds own properties only.                                   *)
(***************************************************************************)
EXTENDS Integers, Sequences, FiniteSets, TLC

\* ------------------------------------------------------------------------
\* JavaScript values
\* ------------------------------------------------------------------------

\* null: URLSearchParams.get / localStorage.getItem of a missing entry,
\* and the value img.onerror is cleared to
Null == "<null>"

\* undefined: a missing property (dict[lang], dict[lang][key], dataset.lang)
Undefined == "<undefined>"

\* JavaScript truthiness of a string-or-missing value
Truthy(v) == v \notin {Null, Undefined, ""}

\* String.prototype.startsWith on a sequence of characters
StartsWith(s, p) == Len(s) >= Len(p) /\ SubSeq(s, 1, Len(p)) = p

\* String.prototype.endsWith on a sequence of characters
EndsWith(s, p) == Len(s) >= Len(p) /\ SubSeq(s, Len(s) - Len(p) + 1, Len(s)) = p

\* Array.prototype.includes on a sequence
Includes(arr, v) == \E i \in DOMAIN arr : arr[i] = v

\* the array of supported codes
validLangs == <<"en", "ja">>

\* the character sequences 'ja' and '_html' the code tests for
Prefix_ja == <<"j", "a">>
Suffix_html == <<"_", "h", "t", "m", "l">>

\* ------------------------------------------------------------------------
\* URLSearchParams: a query is a sequence of <<name, value>> pairs
\* ------------------------------------------------------------------------

\* the values of every pair called name, in order
ParamValues(q, name) ==
    LET hits == SelectSeq(q, LAMBDA p : p[1] = name)
    IN  [i \in DOMAIN hits |-> hits[i][2]]

\* URLSearchParams.get: the first value, or null
SearchGet(q, name) ==
    IF ParamValues(q, name) = << >> THEN Null ELSE ParamValues(q, name)[1]

\* position of the first pair called name (0 when there is none)
FirstIndex(q, name) ==
    IF \E i \in DOMAIN q : q[i][1] = name
    THEN CHOOSE i \in DOMAIN q : q[i][1] = name /\ \A j \in 1..(i - 1) : q[j][1] # name
    ELSE 0

\* q without the pairs called name at a position after k
RECURSIVE DropLater(_, _, _, _)
DropLater(q, name, k, i) ==
    IF i > Len(q) THEN << >>
    ELSE IF i > k /\ q[i][1] = name THEN DropLater(q, name, k, i + 1)
    ELSE <<q[i]>> \o DropLater(q, name, k, i + 1)

\* a mis-written set that always appends the pair
SearchSet_Append(q, name, value) == Append(q, <<name, value>>)

\* URLSearchParams.set: the first pair called name gets the value and the
\* later ones are removed; with no such pair, the pair is appended
SearchSet(q, name, value) ==
    LET k == FirstIndex(q, name)
    IN  IF k = 0 THEN Append(q, <<name, value>>)
        ELSE DropLater([q EXCEPT ![k] = <<name, value>>], name, k, 1)

\* ------------------------------------------------------------------------
\* The translation dictionaries a host page may pass to init
\* ------------------------------------------------------------------------

Key_title == <<"t", "i", "t", "l", "e">>
Key_intro_html == <<"i", "n", "t", "r", "o", "_", "h", "t", "m", "l">>
Key_code == <<"c", "o", "d", "e">>
Key_html == <<"h", "t", "m", "l">>
Key_note == <<"n", "o", "t", "e">>
Key_empty == <<"e", "m", "p", "t", "y">>
Key_unknown == <<"u", "n", "k", "n", "o", "w", "n">>
Key_search == <<"s", "e", "a", "r", "c", "h">>
Key_email == <<"e", "m", "a", "i", "l">>

Keys ==
    {Key_title, Key_intro_html, Key_code, Key_html, Key_note, Key_empty,
     Key_unknown, Key_search, Key_email}

\* an object literal: the listed keys hold a string, every other key is missing
Obj(pairs) ==
    [k \in Keys |-> IF \E p \in pairs : p[1] = k
                    THEN (CHOOSE p \in pairs : p[1] = k)[2]
                    ELSE Undefined]

\* translated values that contain markup syntax
MarkupValues ==
    {"<b>Welcome</b>", "<b>Yokoso</b>", "<code>x</code>", "<i>html</i>", "<i>eichi</i>"}

HasMarkup(v) == v \in MarkupValues

En_all ==
    Obj({<<Key_title, "Title">>, <<Key_intro_html, "<b>Welcome</b>">>,
         <<Key_code, "<code>x</code>">>, <<Key_html, "<i>html</i>">>,
         <<Key_note, "Note">>, <<Key_empty, "">>,
         <<Key_search, "Search">>, <<Key_email, "Email">>})

Ja_all ==
    Obj({<<Key_title, "Taitoru">>, <<Key_intro_html, "<b>Yokoso</b>">>,
         <<Key_code, "<code>x</code>">>, <<Key_html, "<i>eichi</i>">>,
         <<Key_note, "Chu">>, <<Key_empty, "Kara">>,
         <<Key_search, "Kensaku">>, <<Key_email, "Meru">>})

Ja_some ==
    Obj({<<Key_title, "Taitoru">>, <<Key_intro_html, "Yokoso">>,
         <<Key_empty, "">>, <<Key_search, "Kensaku">>})

\* { en: {...}, ja: {...} }, { en: {...}, ja: {partial} } and { en: {...} }
Dictionaries ==
    { [en |-> En_all, ja |-> Ja_all],
      [en |-> En_all, ja |-> Ja_some],
      [en |-> En_all] }

\* the dict field of the DemoLang object literal: {}
EmptyDict == [k \in {} |-> Undefined]

\* whether d[lang] is an object (truthy) rather than undefined
HasLocale(d, lang) == lang \in DOMAIN d

\* the guarded lookup  this.dict[lang] && this.dict[lang][key]
Lookup(d, lang, key) == IF HasLocale(d, lang) THEN d[lang][key] ELSE Undefined

\* ------------------------------------------------------------------------
\* The page: its address, its marked elements and its images at load
\* ------------------------------------------------------------------------

PageOrigin == "https://demo.example"
OtherOrigin == "https://other.example"
PagePath == "/demos/index.html"

\* window.location.search at load
InitialQueries ==
    { << >>,
      << <<"lang", "ja">> >>,
      << <<"lang", "en">> >>,
      << <<"lang", "fr">> >>,
      << <<"foo", "1">>, <<"lang", "JA">>, <<"lang", "ja">> >>,
      << <<"Lang", "ja">>, <<"foo", "1">> >> }

\* localStorage.getItem('demoLang') at load
InitialStores == {Null, "en", "ja", "fr"}

\* a navigator property the browser does not define
UndefinedStr == <<Undefined>>

\* navigator.language at load
InitialLanguages ==
    { UndefinedStr, << >>, <<"j", "a">>, <<"j", "a", "-", "J", "P">>,
      <<"e", "n", "-", "U", "S">>, <<"J", "A">>, <<"j">> }

\* navigator.userLanguage at load (defined by old Internet Explorer only)
InitialUserLanguages == { UndefinedStr, <<"j", "a">> }

\* the [data-i18n] elements, in document order
InitialTexts ==
    << [key |-> Key_title, text |-> "page title", parsed |-> FALSE],
       [key |-> Key_intro_html, text |-> "page intro", parsed |-> TRUE],
       [key |-> Key_code, text |-> "page code", parsed |-> FALSE],
       [key |-> Key_html, text |-> "page html", parsed |-> FALSE],
       [key |-> Key_note, text |-> "page note", parsed |-> TRUE],
       [key |-> Key_empty, text |-> "page empty", parsed |-> FALSE],
       [key |-> Key_unknown, text |-> "page unknown", parsed |-> FALSE] >>

\* the [data-i18n-ph] elements, in document order
InitialPlaceholders ==
    << [key |-> Key_search, placeholder |-> "page search"],
       [key |-> Key_email, placeholder |-> "page email"],
       [key |-> Key_unknown, placeholder |-> "page unknown"] >>

\* the controls: switch is data-lang-switch (undefined without the attribute),
\* lang is dataset.lang, classes is classList, anchor tells an <a href>
InitialControls ==
    << [switch |-> "en", lang |-> "en", anchor |-> TRUE,
        classes |-> {"lang-btn", "opacity-50"}],
       [switch |-> "ja", lang |-> "ja", anchor |-> TRUE,
        classes |-> {"lang-btn", "font-bold"}],
       [switch |-> "fr", lang |-> Undefined, anchor |-> FALSE,
        classes |-> {"px-2"}],
       [switch |-> Undefined, lang |-> "ja", anchor |-> FALSE,
        classes |-> {"lang-btn", "font-bold", "underline", "opacity-50"}] >>

\* the a[data-lang-link] anchors, in document order.  kind "rel" is a
\* path-absolute reference, "abs" an absolute URL, "none" an anchor without
\* href and "bad" an href the URL parser rejects
InitialLinks ==
    << [kind |-> "rel", origin |-> "", path |-> "/page", query |-> << <<"foo", "1">> >>],
       [kind |-> "abs", origin |-> PageOrigin, path |-> "/about",
        query |-> << <<"lang", "en">>, <<"x", "2">>, <<"lang", "ja">> >>],
       [kind |-> "abs", origin |-> OtherOrigin, path |-> "/ext",
        query |-> << <<"lang", "fr">> >>],
       [kind |-> "bad", origin |-> "", path |-> "http://[", query |-> << >>],
       [kind |-> "none", origin |-> "", path |-> "", query |-> << >>],
       [kind |-> "rel", origin |-> "", path |-> "/p2", query |-> << <<"Lang", "x">> >>] >>

\* the <img onerror="__demoFallbackImg(this, ...)"> elements: the arguments
\* each inline handler passes
InitialImgArgs ==
    << [text |-> "Image", bg |-> "eee", fg |-> "555"],
       [text |-> "Photo", bg |-> "ccc", fg |-> "000"] >>

\* cap on the error events one image receives
MaxErrors == 2

\* the elements a page script may insert after init, one of each marker
NewText == [key |-> Key_title, text |-> "added title", parsed |-> FALSE]
NewPlaceholder == [key |-> Key_search, placeholder |-> "added search"]
NewLink == [kind |-> "rel", origin |-> "", path |-> "/added", query |-> << >>]

\* cap on the elements inserted after init
MaxAdded == 2

\* the number of elements a selector matched when the page was loaded
LoadCount(sel) ==
    CASE sel = "[data-i18n]" -> Len(InitialTexts)
      [] sel = "[data-i18n-ph]" -> Len(InitialPlaceholders)
      [] sel = "a[data-lang-link]" -> Len(InitialLinks)

\* an element list collected once at load and reused by every pass
querySelectorAll_Cached(sel, els) == {i \in DOMAIN els : i <= LoadCount(sel)}

\* document.querySelectorAll(sel): the elements, given as positions in els,
\* that match sel in the document as it is at the call
querySelectorAll(sel, els) == DOMAIN els

VARIABLES
    currentLang,      \* DemoLang.currentLang
    dict,             \* DemoLang.dict
    location,         \* window.location: [path, query]
    historyLen,       \* window.history.length
    navigations,      \* navigations and reloads the page has started
    store,            \* localStorage 'demoLang'
    navLanguage,      \* navigator.language
    navUserLanguage,  \* navigator.userLanguage
    docLang,          \* document.documentElement.lang
    texts,            \* [data-i18n] elements
    placeholders,     \* [data-i18n-ph] elements
    controls,         \* switch controls and .lang-btn elements
    listeners,        \* controls that hold the click listener of attachListeners
    links,            \* a[data-lang-link] elements
    imgs,             \* images: [onerror, src, errors, generated]
    urlLang,          \* init's local urlLang
    storedLang,       \* init's local storedLang
    browserLang,      \* init's local browserLang
    lastCall,         \* the last DemoLang entry point that ran
    prevLang          \* currentLang as it was when that entry point was called

vars ==
    <<currentLang, dict, location, historyLen, navigations, store, navLanguage,
      navUserLanguage, docLang, texts, placeholders, controls, listeners, links,
      imgs, urlLang, storedLang, browserLang, lastCall, prevLang>>

langVars ==
    <<currentLang, dict, location, historyLen, navigations, store, navLanguage,
      navUserLanguage, docLang, texts, placeholders, controls, listeners, links,
      urlLang, storedLang, browserLang, lastCall, prevLang>>

\* the page as loaded, before the host script calls DemoLang.init
Init ==
    /\ currentLang = "en"
    /\ dict = EmptyDict
    /\ location \in [path : {PagePath}, query : InitialQueries]
    /\ historyLen = 1
    /\ navigations = 0
    /\ store \in InitialStores
    /\ navLanguage \in InitialLanguages
    /\ navUserLanguage \in InitialUserLanguages
    /\ docLang \in {"", "en"}
    /\ texts = InitialTexts
    /\ placeholders = InitialPlaceholders
    /\ controls = InitialControls
    /\ listeners = {}
    /\ links = InitialLinks
    /\ imgs = [i \in DOMAIN InitialImgArgs |->
                 [onerror |-> "__demoFallbackImg", src |-> <<"photo.jpg">>,
                  errors |-> 0, generated |-> 0]]
    /\ urlLang = Undefined
    /\ storedLang = Undefined
    /\ browserLang = Undefined
    /\ lastCall = "none"
    /\ prevLang = "en"

\* ------------------------------------------------------------------------
\* DemoLang.init: language resolution
\* ------------------------------------------------------------------------

\* a || b on strings: a unless it is undefined or empty
OrElse(a, b) == IF a \in {UndefinedStr, << >>} THEN b ELSE a

\* (navigator.language || navigator.userLanguage || 'en').startsWith('ja')
\*     ? 'ja' : 'en'
BrowserLang(language, userLanguage) ==
    IF StartsWith(OrElse(OrElse(language, userLanguage), <<"e", "n">>), Prefix_ja)
    THEN "ja" ELSE "en"

\* the resolution with the store consulted before the URL
ResolveLang_StoreFirst(u, s, b) ==
    IF Includes(validLangs, s) THEN s
    ELSE IF Includes(validLangs, u) THEN u
    ELSE b

\* validLangs.includes(urlLang) ? urlLang
\*   : validLangs.includes(storedLang) ? storedLang : browserLang
ResolveLang(u, s, b) ==
    IF Includes(validLangs, u) THEN u
    ELSE IF Includes(validLangs, s) THEN s
    ELSE b

\* ------------------------------------------------------------------------
\* DemoLang.applyLang: the passes over the document
\* ------------------------------------------------------------------------

\* the suffix test with the underscore forgotten
IsHtmlKey_NoUnderscore(key) == EndsWith(key, <<"h", "t", "m", "l">>)

\* key.endsWith('_html')
IsHtmlKey(key) == EndsWith(key, Suffix_html)

\* el.innerHTML = v: v is parsed, markup in it becomes elements
SetInnerHTML(el, v) == [el EXCEPT !.text = v, !.parsed = HasMarkup(v)]

\* el.textContent = v: v becomes one text node, markup in it stays literal
SetTextContent(el, v) == [el EXCEPT !.text = v, !.parsed = FALSE]

\* the pass that writes an element whatever the lookup gives
TranslateText_NoGuard(el, d, lang) ==
    IF IsHtmlKey(el.key) THEN SetInnerHTML(el, Lookup(d, lang, el.key))
    ELSE SetTextContent(el, Lookup(d, lang, el.key))

\* the body of the [data-i18n] loop for one element
TranslateText(el, d, lang) ==
    IF Truthy(Lookup(d, lang, el.key))
    THEN IF IsHtmlKey(el.key) THEN SetInnerHTML(el, Lookup(d, lang, el.key))
         ELSE SetTextContent(el, Lookup(d, lang, el.key))
    ELSE el

\* the body of the [data-i18n-ph] loop for one element
TranslatePlaceholder(el, d, lang) ==
    IF Truthy(Lookup(d, lang, el.key))
    THEN [el EXCEPT !.placeholder = Lookup(d, lang, el.key)]
    ELSE el

\* the loop body that adds the classes of the new state and removes none
ToggleButton_AddOnly(btn, lang) ==
    IF "lang-btn" \notin btn.classes THEN btn
    ELSE IF btn.lang = lang
    THEN [btn EXCEPT !.classes = @ \cup {"font-bold", "underline"}]
    ELSE [btn EXCEPT !.classes = @ \cup {"opacity-50"}]

\* the body of the .lang-btn loop for one control
ToggleButton(btn, lang) ==
    IF "lang-btn" \notin btn.classes THEN btn
    ELSE IF btn.lang = lang
    THEN [btn EXCEPT !.classes = (@ \cup {"font-bold", "underline"}) \ {"opacity-50"}]
    ELSE [btn EXCEPT !.classes = (@ \ {"font-bold", "underline"}) \cup {"opacity-50"}]

\* history.pushState in place of replaceState: one more entry
ReplaceState_Push(len) == len + 1

\* window.history.replaceState({}, '', newUrl): the entry count stays
ReplaceState(len) == len

\* newUrl built with searchParams.append: an earlier 'lang' pair stays first
NewUrl_Append(loc, lang) == [loc EXCEPT !.query = Append(@, <<"lang", lang>>)]

\* newUrl built from the path alone: the other parameters are lost
NewUrl_Fresh(loc, lang) == [loc EXCEPT !.query = << <<"lang", lang>> >>]

\* newUrl: the current URL with searchParams.set('lang', lang)
NewUrl(loc, lang) == [loc EXCEPT !.query = SearchSet(@, "lang", lang)]

\* ------------------------------------------------------------------------
\* DemoLang.updateLinks
\* ------------------------------------------------------------------------

\* whether new URL(a.href, window.location.href) returns (it throws otherwise)
Parses(a) == a.kind # "bad"

\* new URL(a.href, window.location.href) of an href that parses; an anchor
\* without href has a.href = '' and resolves to the page's own URL
ResolveHref(a, loc) ==
    CASE a.kind = "abs" -> [origin |-> a.origin, path |-> a.path, query |-> a.query]
      [] a.kind = "rel" -> [origin |-> PageOrigin, path |-> a.path, query |-> a.query]
      [] a.kind = "none" -> [origin |-> PageOrigin, path |-> loc.path, query |-> loc.query]

\* a.href = url.toString()
WriteHref(url) ==
    [kind |-> "abs", origin |-> url.origin, path |-> url.path, query |-> url.query]

\* the loop body with the write-back  a.href = url.toString()  forgotten
UpdateLink_NoWriteBack(a, lang, loc) == a

\* the loop body with the origin test left out
UpdateLink_AnyOrigin(a, lang, loc) ==
    IF ~Parses(a) THEN a
    ELSE WriteHref([ResolveHref(a, loc) EXCEPT !.query = SearchSet(@, "lang", lang)])

\* the body of the a[data-lang-link] loop for one anchor
UpdateLink(a, lang, loc) ==
    IF ~Parses(a) THEN a
    ELSE IF ResolveHref(a, loc).origin = PageOrigin
    THEN WriteHref([ResolveHref(a, loc) EXCEPT !.query = SearchSet(@, "lang", lang)])
    ELSE a

\* updateLinks with the try/catch around the whole loop: the first href that
\* does not parse ends the loop
updateLinks_StopAtBad(ls, lang, loc) ==
    [i \in DOMAIN ls |->
        IF \E j \in 1..i : ~Parses(ls[j]) THEN ls[i] ELSE UpdateLink(ls[i], lang, loc)]

\* updateLinks(lang) with the page at loc
updateLinks(ls, lang, loc) ==
    [i \in DOMAIN ls |->
        IF i \in querySelectorAll("a[data-lang-link]", ls)
        THEN UpdateLink(ls[i], lang, loc) ELSE ls[i]]

\* ------------------------------------------------------------------------
\* DemoLang.attachListeners and the click event
\* ------------------------------------------------------------------------

\* the controls matched by [data-lang-switch], each given the click listener
attachListeners(ctrls) == {i \in DOMAIN ctrls : ctrls[i].switch # Undefined}

\* e.preventDefault()
PreventDefault(e) == [e EXCEPT !.defaultPrevented = TRUE]

\* the browser's default action of a click: a link that was clicked navigates
\* unless a listener prevented it
DefaultAction(ctrl, e, n) == IF ctrl.anchor /\ ~e.defaultPrevented THEN n + 1 ELSE n

\* ------------------------------------------------------------------------
\* window.__demoFallbackImg
\* ------------------------------------------------------------------------

\* the fallback without the guard
ClearHandler_Keep(img) == img

\* img.onerror = null
ClearHandler(img) == [img EXCEPT !.onerror = Null]

\* img.src = `data:image/svg+xml;charset=utf-8,${encoded}`, the SVG built
\* from text, bg and fg
AssignFallback(img, args) ==
    [img EXCEPT !.src = <<"data:image/svg+xml;charset=utf-8", args.text, args.bg, args.fg>>,
                !.generated = @ + 1]

\* window.__demoFallbackImg(img, text, bg, fg)
demoFallbackImg(img, args) == AssignFallback(ClearHandler(img), args)

\* ------------------------------------------------------------------------
\* Actions
\* ------------------------------------------------------------------------

\* applyLang without  localStorage.setItem('demoLang', lang)
ApplyPage_NoPersist(d, lang) ==
    /\ currentLang' = lang
    /\ store' = store
    /\ texts' = [i \in DOMAIN texts |-> TranslateText(texts[i], d, lang)]
    /\ placeholders' =
           [i \in DOMAIN placeholders |-> TranslatePlaceholder(placeholders[i], d, lang)]
    /\ controls' = [i \in DOMAIN controls |-> ToggleButton(controls[i], lang)]
    /\ location' = NewUrl(location, lang)
    /\ historyLen' = ReplaceState(historyLen)

\* the effects of applyLang(lang) up to the URL rewrite, with dictionary d
ApplyPage(d, lang) ==
    /\ currentLang' = lang
    /\ store' = lang
    /\ texts' =
           [i \in DOMAIN texts |->
               IF i \in querySelectorAll("[data-i18n]", texts)
               THEN TranslateText(texts[i], d, lang) ELSE texts[i]]
    /\ placeholders' =
           [i \in DOMAIN placeholders |->
               IF i \in querySelectorAll("[data-i18n-ph]", placeholders)
               THEN TranslatePlaceholder(placeholders[i], d, lang) ELSE placeholders[i]]
    /\ controls' = [i \in DOMAIN controls |-> ToggleButton(controls[i], lang)]
    /\ location' = NewUrl(location, lang)
    /\ historyLen' = ReplaceState(historyLen)

\* DemoLang.applyLang(lang)
applyLang(lang) ==
    /\ ApplyPage(dict, lang)
    /\ links' = updateLinks(links, lang, location')
    /\ lastCall' = "apply"
    /\ prevLang' = currentLang
    /\ UNCHANGED <<dict, navLanguage, navUserLanguage, docLang, listeners,
                   urlLang, storedLang, browserLang>>

\* DemoLang.init({ dict: d }), called once by the host page
init(d) ==
    /\ lastCall = "none"
    /\ dict' = d
    /\ urlLang' = SearchGet(location.query, "lang")
    /\ storedLang' = store
    /\ browserLang' = BrowserLang(navLanguage, navUserLanguage)
    /\ LET lang == ResolveLang(urlLang', storedLang', browserLang')
       IN  /\ ApplyPage(d, lang)
           /\ listeners' = attachListeners(controls')
           /\ links' = updateLinks(updateLinks(links, lang, location'), lang, location')
           /\ docLang' = lang
    /\ lastCall' = "init"
    /\ prevLang' = currentLang
    /\ UNCHANGED <<navLanguage, navUserLanguage, navigations, imgs>>

\* a click on switch control i: the listener of attachListeners runs, then
\* the browser's default action
click(i) ==
    /\ i \in listeners
    /\ LET e == PreventDefault([defaultPrevented |-> FALSE])
       IN  /\ applyLang(controls[i].switch)
           /\ navigations' = DefaultAction(controls[i], e, navigations)
    /\ UNCHANGED imgs

\* the host page calls DemoLang.applyLang(c) itself, with a supported code
callApplyLang(c) ==
    /\ lastCall # "none"
    /\ applyLang(c)
    /\ UNCHANGED <<navigations, imgs>>

\* image i fails to load or decode: the error event runs its onerror handler
imgError(i) ==
    /\ imgs[i].errors < MaxErrors
    /\ imgs' = [imgs EXCEPT ![i] =
                  IF @.onerror = "__demoFallbackImg"
                  THEN demoFallbackImg([@ EXCEPT !.errors = @ + 1], InitialImgArgs[i])
                  ELSE [@ EXCEPT !.errors = @ + 1]]
    /\ UNCHANGED langVars

\* the number of elements inserted since the page was loaded
Added ==
    (Len(texts) - Len(InitialTexts)) + (Len(placeholders) - Len(InitialPlaceholders))
        + (Len(links) - Len(InitialLinks))

\* a page script inserts a marked element at the end of the document, after
\* init: DemoLang is not called and keeps no list of elements
addElement(marker) ==
    /\ lastCall # "none"
    /\ Added < MaxAdded
    /\ texts' = IF marker = "data-i18n" THEN Append(texts, NewText) ELSE texts
    /\ placeholders' =
           IF marker = "data-i18n-ph" THEN Append(placeholders, NewPlaceholder)
           ELSE placeholders
    /\ links' = IF marker = "data-lang-link" THEN Append(links, NewLink) ELSE links
    /\ lastCall' = "add"
    /\ UNCHANGED <<currentLang, dict, location, historyLen, navigations, store,
                   navLanguage, navUserLanguage, docLang, controls, listeners, imgs,
                   urlLang, storedLang, browserLang, prevLang>>

Next ==
    \/ \E d \in Dictionaries : init(d)
    \/ \E i \in DOMAIN controls : click(i)
    \/ \E c \in {"en", "ja"} : callApplyLang(c)
    \/ \E i \in DOMAIN imgs : imgError(i)

Spec == Init /\ [][Next]_vars

\* The page with a script that inserts marked elements after init, in one
\* browser (navigator.language 'en-US', no lang attribute in the markup) and
\* with images that load.
InitDom ==
    /\ Init
    /\ navLanguage = <<"e", "n", "-", "U", "S">>
    /\ navUserLanguage = UndefinedStr
    /\ docLang = ""

NextDom ==
    \/ \E d \in Dictionaries : init(d)
    \/ \E i \in DOMAIN controls : click(i)
    \/ \E c \in {"en", "ja"} : callApplyLang(c)
    \/ \E marker \in {"data-i18n", "data-i18n-ph", "data-lang-link"} : addElement(marker)

SpecDom == InitDom /\ [][NextDom]_vars

\* ------------------------------------------------------------------------
\* Properties
\* ------------------------------------------------------------------------

\* init has run
Initialized == lastCall # "none"

\* the state is the one a DemoLang call left (no page change since)
AfterCall == lastCall \in {"init", "apply"}

\* the 'lang' query parameter of the current URL, as URLSearchParams.get reads it
UrlLangParam == SearchGet(location.query, "lang")

\* the pairs of a query that are not called lang
OtherParams(q) == SelectSeq(q, LAMBDA p : p[1] # "lang")

\* C1: after init and after every applyLang(c) with c in {en, ja}, currentLang,
\* the stored 'demoLang', the URL's 'lang' parameter and the document's lang
\* attribute are all equal to c.
C1_FourValuesAgree ==
    (AfterCall /\ currentLang \in {"en", "ja"}) =>
        /\ store = currentLang
        /\ UrlLangParam = currentLang
        /\ docLang = currentLang

\* the environment's locale hint: navigator.language, else navigator.userLanguage
EnvironmentHint == OrElse(navLanguage, navUserLanguage)

\* the resolved language as the precedence rule states it
StatedResolution(u, s, hint) ==
    CASE u \in {"en", "ja"} -> u
      [] u \notin {"en", "ja"} /\ s \in {"en", "ja"} -> s
      [] OTHER -> IF Len(hint) >= 2 /\ hint[1] = "j" /\ hint[2] = "a" THEN "ja" ELSE "en"

\* C2: init resolves to the URL's 'lang' value when it is en or ja, otherwise
\* to the stored value when it is en or ja, otherwise to ja when the
\* environment hint begins with 'ja' and to en in every other case; an
\* unsupported URL or stored value is never the resolved language.
C2_ResolutionPrecedence ==
    [][(lastCall = "none" /\ lastCall' = "init") =>
          /\ currentLang' = StatedResolution(UrlLangParam, store, EnvironmentHint)
          /\ currentLang' \in {"en", "ja"}]_vars

\* init met an unsupported URL value, a supported stored value and a hint
\* for the other language, and resolved to the stored value
C2_Witness ==
    /\ lastCall = "init"
    /\ urlLang = "fr"
    /\ storedLang = "ja"
    /\ browserLang = "en"
    /\ currentLang = "ja"

\* C3: after init, through any sequence of switch-control activations,
\* currentLang and the stored value are both en or ja.
C3_OnlyTwoStates ==
    Initialized => (currentLang \in {"en", "ja"} /\ store \in {"en", "ja"})

\* what a user or a script can observe of the language state of the page
Observable ==
    <<texts, placeholders, controls, links, location, historyLen, store, currentLang>>

\* C4: applyLang(c) called when c is already the active language (a second
\* applyLang(c) in succession, or a switch click that re-selects the active
\* locale) leaves element content, placeholders, control styling, link
\* hrefs, the current URL, the store and currentLang as they were.
C4_ApplyIdempotent ==
    [][(AfterCall /\ lastCall' = "apply" /\ currentLang' = currentLang) =>
          Observable' = Observable]_vars

\* applyLang('ja') has just run with ja already active, on a page whose
\* title was translated and whose links were rewritten
C4_Witness ==
    /\ lastCall = "apply"
    /\ prevLang = "ja"
    /\ currentLang = "ja"
    /\ texts[1].text = "Taitoru"
    /\ ParamValues(links[2].query, "lang") = <<"ja">>

\* C5: a DemoLang call that applies language lang leaves every text and
\* placeholder element whose key is missing from dict[lang] (or whose
\* locale has no table) exactly as it was, and still translates the
\* elements whose key has a value, writes the store and the URL parameter,
\* and rewrites the same-origin links.
C5_MissingKeyKeepsContent ==
    [][(lastCall' \in {"init", "apply"}) =>
          /\ \A i \in DOMAIN texts :
                /\ Lookup(dict', currentLang', texts[i].key) = Undefined =>
                       texts'[i] = texts[i]
                /\ Truthy(Lookup(dict', currentLang', texts[i].key)) =>
                       texts'[i].text = Lookup(dict', currentLang', texts[i].key)
          /\ \A i \in DOMAIN placeholders :
                /\ Lookup(dict', currentLang', placeholders[i].key) = Undefined =>
                       placeholders'[i] = placeholders[i]
                /\ Truthy(Lookup(dict', currentLang', placeholders[i].key)) =>
                       placeholders'[i].placeholder =
                           Lookup(dict', currentLang', placeholders[i].key)
          /\ store' = currentLang'
          /\ SearchGet(location'.query, "lang") = currentLang'
          /\ \A i \in DOMAIN links :
                (links[i].kind \in {"rel", "none"}) =>
                    SearchGet(links'[i].query, "lang") = currentLang']_vars

\* ja was applied with a partial ja table: the note (no ja entry) keeps the
\* English text an earlier apply gave it, the email placeholder keeps its
\* value, and the title next to them is translated
C5_Witness ==
    /\ lastCall = "apply"
    /\ currentLang = "ja"
    /\ Lookup(dict, "ja", Key_note) = Undefined
    /\ texts[5].text = "Note"
    /\ texts[7].text = "page unknown"
    /\ placeholders[2].placeholder = "Email"
    /\ texts[1].text = "Taitoru"
    /\ store = "ja"

\* C6: a translation that was applied to a text element was written as rich
\* content (its markup parsed into elements) exactly when the key ends with
\* '_html'; under any other key the value is literal text, markup included.
C6_RichContentRouting ==
    AfterCall =>
        \A i \in DOMAIN texts :
            LET key == texts[i].key
                v == Lookup(dict, currentLang, key)
            IN  Truthy(v) =>
                    /\ texts[i].text = v
                    /\ texts[i].parsed = (EndsWith(key, Suffix_html) /\ HasMarkup(v))

\* a value with markup was parsed under the key intro_html and stayed
\* literal under the keys code and html
C6_Witness ==
    /\ AfterCall
    /\ currentLang = "en"
    /\ texts[2].text = "<b>Welcome</b>" /\ texts[2].parsed
    /\ texts[3].text = "<code>x</code>" /\ ~texts[3].parsed
    /\ texts[4].text = "<i>html</i>" /\ ~texts[4].parsed

\* anchor a parses and resolves, with the page at loc, to the page's origin
SameOrigin(a, loc) == Parses(a) /\ ResolveHref(a, loc).origin = PageOrigin

\* anchor a parses and resolves to another origin
CrossOrigin(a, loc) == Parses(a) /\ ResolveHref(a, loc).origin # PageOrigin

\* C7: after init and after every applyLang(lang), each marked anchor whose
\* href resolves to the page's origin holds exactly one 'lang' parameter,
\* equal to lang, and has the path and the other query parameters its
\* resolved href had before the call.
C7_SameOriginLinksCarryLang ==
    [][(lastCall' \in {"init", "apply"}) =>
          \A i \in DOMAIN links :
              SameOrigin(links[i], location') =>
                  LET before == ResolveHref(links[i], location')
                      after == ResolveHref(links'[i], location')
                  IN  /\ ParamValues(after.query, "lang") = <<currentLang'>>
                      /\ after.origin = PageOrigin
                      /\ after.path = before.path
                      /\ OtherParams(after.query) = OtherParams(before.query)]_vars

\* after a switch to ja the relative link /page?foo=1 carries lang=ja next
\* to foo=1 and the link that held two 'lang' parameters holds one
C7_Witness ==
    /\ lastCall = "apply"
    /\ currentLang = "ja"
    /\ prevLang = "en"
    /\ links[1].path = "/page"
    /\ links[1].query = << <<"foo", "1">>, <<"lang", "ja">> >>
    /\ links[2].query = << <<"lang", "ja">>, <<"x", "2">> >>

\* C8: no step changes the href of a marked anchor that resolves to an
\* origin other than the page's.
C8_CrossOriginLinksUntouched ==
    [][\A i \in DOMAIN links :
           CrossOrigin(links[i], location') => links'[i] = links[i]]_vars

\* after init and a switch the cross-origin anchor is as the page had it,
\* while the same-origin anchor before it was rewritten
C8_Witness ==
    /\ lastCall = "apply"
    /\ prevLang # currentLang
    /\ links[3] = InitialLinks[3]
    /\ links[3].origin = OtherOrigin
    /\ links[2] # InitialLinks[2]

\* C9: the fallback generator runs at most once for an image, and once it
\* has run the image's onerror is null, whatever further errors the image
\* receives.
C9_FallbackRunsOnce ==
    \A i \in DOMAIN imgs :
        /\ imgs[i].generated <= 1
        /\ imgs[i].generated >= 1 => imgs[i].onerror = Null

\* an image failed, got its placeholder, and then failed again
C9_Witness ==
    \E i \in DOMAIN imgs :
        /\ imgs[i].errors = 2
        /\ imgs[i].generated = 1
        /\ imgs[i].src[1] = "data:image/svg+xml;charset=utf-8"

\* C10: no step adds a history entry or starts a navigation or reload, and
\* the path of the current URL stays.
C10_ReplaceNotPush ==
    [][/\ historyLen' <= historyLen
       /\ navigations' = navigations
       /\ location'.path = location.path]_vars

\* a switch rewrote the current URL's 'lang' parameter in the one history
\* entry the page was loaded with
C10_Witness ==
    /\ lastCall = "apply"
    /\ prevLang = "en"
    /\ UrlLangParam = "ja"
    /\ historyLen = 1
    /\ navigations = 0

\* C11: after a call that applied lang, every text element (resp. placeholder
\* element) whose key is present in dict[lang], with any string value, the
\* empty string included, has that value as its content (resp. placeholder).
C11_PresentKeyApplied ==
    AfterCall =>
        /\ \A i \in DOMAIN texts :
               Lookup(dict, currentLang, texts[i].key) # Undefined =>
                   texts[i].text = Lookup(dict, currentLang, texts[i].key)
        /\ \A i \in DOMAIN placeholders :
               Lookup(dict, currentLang, placeholders[i].key) # Undefined =>
                   placeholders[i].placeholder =
                       Lookup(dict, currentLang, placeholders[i].key)

\* the 'active' style state of a control
Active(c) == {"font-bold", "underline"} \subseteq c.classes /\ "opacity-50" \notin c.classes

\* the 'inactive' style state of a control
Inactive(c) == c.classes \cap {"font-bold", "underline"} = {} /\ "opacity-50" \in c.classes

\* C12 as stated: after every call that applied lang, every switch control
\* (an element declaring a code in data-lang-switch) is in exactly one of
\* the two style states, active exactly when the code it declares is lang.
C12_SwitchControlsStyled ==
    AfterCall =>
        \A i \in DOMAIN controls :
            controls[i].switch # Undefined =>
                /\ Active(controls[i]) # Inactive(controls[i])
                /\ Active(controls[i]) = (controls[i].switch = currentLang)

\* C12 as amended: after every call that applied lang, every element of
\* class lang-btn is in exactly one of the two style states, active exactly
\* when its data-lang equals lang; so an activated control is active when it
\* carries the class and its data-lang is the code it declares.
C12_LangBtnStyled ==
    AfterCall =>
        \A i \in DOMAIN controls :
            "lang-btn" \in controls[i].classes =>
                /\ Active(controls[i]) # Inactive(controls[i])
                /\ Active(controls[i]) = (controls[i].lang = currentLang)
                /\ (controls[i].switch = controls[i].lang /\ controls[i].switch = currentLang)
                       => Active(controls[i])

\* the ja control was clicked: it is active, the en control is inactive and
\* the button that the page had styled both ways is active only
C12_Witness ==
    /\ lastCall = "apply"
    /\ prevLang = "en"
    /\ currentLang = "ja"
    /\ Active(controls[2]) /\ ~Inactive(controls[2])
    /\ Inactive(controls[1]) /\ ~Active(controls[1])
    /\ controls[4].classes = {"lang-btn", "font-bold", "underline"}

\* C13: each switch activation is one step that completes applyLang, so
\* after every activation, whatever was activated before it, currentLang,
\* the store, the URL parameter and the same-origin links all carry the code
\* of the control activated last.
C13_LastActivationWins ==
    [][\A i \in DOMAIN controls :
           click(i) =>
               /\ currentLang' = controls[i].switch
               /\ store' = controls[i].switch
               /\ SearchGet(location'.query, "lang") = controls[i].switch
               /\ \A k \in DOMAIN links' :
                      SameOrigin(links'[k], location') =>
                          ParamValues(links'[k].query, "lang") = <<controls[i].switch>>]_vars

\* init resolved en, then ja and then en were activated: everything carries en
C13_Witness ==
    /\ lastCall = "apply"
    /\ ResolveLang(urlLang, storedLang, browserLang) = "en"
    /\ prevLang = "ja"
    /\ currentLang = "en"
    /\ store = "en"
    /\ UrlLangParam = "en"
    /\ ParamValues(links[1].query, "lang") = <<"en">>

\* C14: a call that runs updateLinks leaves every marked anchor whose href
\* does not parse as it was, completes (the step ends with the call's other
\* effects done), and gives every same-origin anchor, before and after the
\* unparsable one in document order, the 'lang' parameter.
C14_MalformedLinkIsolated ==
    [][(lastCall' \in {"init", "apply"}) =>
          \A i \in DOMAIN links :
              ~Parses(links[i]) =>
                  /\ links'[i] = links[i]
                  /\ store' = currentLang'
                  /\ lastCall' = "init" => docLang' = currentLang'
                  /\ \A k \in DOMAIN links :
                         (k # i /\ SameOrigin(links[k], location')) =>
                             SearchGet(links'[k].query, "lang") = currentLang']_vars

\* after a switch to ja the unparsable anchor is as the page had it, and
\* the anchors before it and after it carry lang=ja
C14_Witness ==
    /\ lastCall = "apply"
    /\ currentLang = "ja"
    /\ ~Parses(links[4])
    /\ links[4] = InitialLinks[4]
    /\ SearchGet(links[1].query, "lang") = "ja"
    /\ SearchGet(links[5].query, "lang") = "ja"
    /\ SearchGet(links[6].query, "lang") = "ja"

\* the positions of the elements inserted after init
AddedTexts == {i \in DOMAIN texts : i > Len(InitialTexts)}
AddedPlaceholders == {i \in DOMAIN placeholders : i > Len(InitialPlaceholders)}
AddedLinks == {i \in DOMAIN links : i > Len(InitialLinks)}

\* C15: the next applyLang after an insertion treats the inserted element
\* like the elements present at init: an inserted text or placeholder
\* element whose key has a value gets that value, as the element of the
\* same key present at init does, and an inserted same-origin anchor gets
\* the 'lang' parameter.
C15_FreshDiscovery ==
    [][(lastCall' = "apply") =>
          /\ \A i \in AddedTexts :
                /\ Truthy(Lookup(dict, currentLang', texts[i].key)) =>
                       texts'[i].text = Lookup(dict, currentLang', texts[i].key)
                /\ \A k \in DOMAIN InitialTexts :
                       texts[k].key = texts[i].key =>
                           (texts'[k] # texts[k] => texts'[i] = texts'[k])
          /\ \A i \in AddedPlaceholders :
                Truthy(Lookup(dict, currentLang', placeholders[i].key)) =>
                    placeholders'[i].placeholder =
                        Lookup(dict, currentLang', placeholders[i].key)
          /\ \A i \in AddedLinks :
                SameOrigin(links[i], location') =>
                    ParamValues(links'[i].query, "lang") = <<currentLang'>>]_vars

\* a text element and an anchor were inserted after init and the apply
\* that followed translated the one and rewrote the other
C15_Witness ==
    /\ lastCall = "apply"
    /\ currentLang = "ja"
    /\ AddedTexts # {} /\ AddedLinks # {}
    /\ \A i \in AddedTexts : texts[i].text = "Taitoru"
    /\ \A i \in AddedLinks :
           links[i].kind = "abs" /\ links[i].query = << <<"lang", "ja">> >>

\* C16 as stated: when init finds an unsupported value in the store, the
\* store still holds that value when init has finished.
C16_StoreKeepsInvalidCode ==
    (lastCall = "init" /\ storedLang \notin {Null, "en", "ja"}) => store = storedLang

\* C16 as amended: when init finds an unsupported value in the store, it
\* resolves by the other steps (the URL value when supported, else the
\* browser language), and when init has finished the store holds the
\* resolved language in place of the unsupported value.
C16_StoreHoldsResolved ==
    (lastCall = "init" /\ storedLang \notin {Null, "en", "ja"}) =>
        /\ currentLang = (IF urlLang \in {"en", "ja"} THEN urlLang ELSE browserLang)
        /\ store = currentLang
        /\ store \in {"en", "ja"}
        /\ store # storedLang

\* init found 'fr' in the store and no 'lang' in the URL, resolved by the
\* browser language and left the store holding the resolved code
C16_Witness ==
    /\ lastCall = "init"
    /\ storedLang = "fr"
    /\ urlLang = Null
    /\ currentLang = browserLang
    /\ store = browserLang

\* C17: in every state after init, whatever controls were activated since,
\* currentLang, the stored 'demoLang' and the URL's 'lang' parameter are
\* equal to one another.
C17_ThreeValuesAgree ==
    Initialized => (store = currentLang /\ UrlLangParam = currentLang)

\* the control declaring 'fr' was activated on a page loaded with another
\* value in the store: the three values are 'fr'
C17_Witness ==
    /\ lastCall = "apply"
    /\ storedLang = "ja"
    /\ currentLang = "fr"
    /\ store = "fr"
    /\ UrlLangParam = "fr"
    /\ docLang # "fr"

\* C18: no step changes the path of the current URL or any of its query
\* parameters other than 'lang', and the dictionary given to init is stored
\* as given and never changed afterwards.
C18_OnlyLangParamChanges ==
    [][/\ location'.path = location.path
       /\ OtherParams(location'.query) = OtherParams(location.query)
       /\ Initialized => dict' = dict
       /\ (~Initialized /\ lastCall' = "init") => dict' \in Dictionaries]_vars

\* a page loaded with ?Lang=ja&foo=1 was initialised and switched: the URL
\* holds both parameters as loaded, followed by the 'lang' the switch set
C18_Witness ==
    /\ lastCall = "apply"
    /\ prevLang # currentLang
    /\ location.path = PagePath
    /\ location.query = << <<"Lang", "ja">>, <<"foo", "1">>, <<"lang", currentLang>> >>
    /\ dict \in Dictionaries

====
